---- MODULE Spec2Model ----
(***************************************************************************)
(* Model of cozy's media importer (cozy/media/importer.py): one scan()     *)
(* resolves the configured storage paths, walks them lazily, filters the   *)
(* files that are imported and unchanged, probes the rest in slices of 100 *)
(* on a thread pool, inserts the results into the library and reports.     *)
(*                                                                         *)
(* A file on disk is identified by <<directory, index>>.  A directory's    *)
(* content is a run-length list <<length, kind>>: the kind of a file says  *)
(* whether the library already knows it, what its modification time is     *)
(* and what the media detector makes of it.                                *)
(***************************************************************************)
EXTENDS Integers, Sequences, FiniteSets, TLC

VARIABLES
    storage_locations,  \* Settings.storage_locations: seq of [path, external, status]
    disk,               \* [tree: directory -> runs, nested: "b" lies inside "a"]
    files,              \* Library.files: the set of imported file paths
    chapters,           \* Library.chapters: records [file, modified]
    pc,                 \* where scan() stands
    exc,                \* the exception that left scan(), or "none"
    paths_to_scan,      \* the walker's roots, as directories in walk order
    cursor,             \* number of walked files the filter generator has consumed
    gen_started,        \* the filter generator has run line 100
    imported_files,     \* the filter generator's local of line 100
    batch,              \* the slice islice draws for pool.map
    results,            \* what the import_file calls of the batch return, in batch order
    started,            \* probes of the batch taken by a worker
    returned,           \* probes of the batch that have returned
    undetected_files,   \* the set of line 50
    events,             \* emit_event_main_thread calls of this scan, in order
    slices,             \* history: sizes of the slices taken in this scan
    inserted,           \* history: arguments of the insert_many calls of this scan
    probes,             \* history: paths given to import_file in this scan, in order
    filtered,           \* history: paths the filter yielded in this scan, in order
    scans,              \* number of scan() calls so far
    listeners,          \* EventSender.__listeners: the list of the class, in order
    idle,               \* calls Gdk.threads_add_idle has scheduled and the main loop has not run
    calls               \* history: the calls of listeners, in order

vars == <<storage_locations, disk, files, chapters, pc, exc, paths_to_scan, cursor,
          gen_started, imported_files, batch, results, started, returned,
          undetected_files, events, slices, inserted, probes, filtered, scans,
          listeners, idle, calls>>

\* the state of the event sender and of the main loop
sender_vars == <<listeners, idle, calls>>

\* the state of the importer, its library and the disk
importer_vars ==
    <<storage_locations, disk, files, chapters, pc, exc, paths_to_scan, cursor,
      gen_started, imported_files, batch, results, started, returned,
      undetected_files, events, slices, inserted, probes, filtered, scans>>

----------------------------------------------------------------------------
(* Bounds and constants *)

\* islice(files_to_scan, 100)
BatchSize == 100

\* worker threads of the pool (Pool() takes the machine's CPU count)
NumWorkers == 2

\* storage locations configured in the settings
MaxLocations == 2

\* files of the small directories
MaxFiles == 3

\* scan() calls in a row
MaxScans == 2

\* add_listener calls
MaxListeners == 2

\* emit_event and emit_event_main_thread calls of the components, counted by
\* the listener calls made and the idle sources pending
MaxCalls == 2

Range(s) == {s[i] : i \in 1..Len(s)}

----------------------------------------------------------------------------
(* The file system and the media detector *)

Directories == {"a", "b"}

\* a configured path is a directory of the disk or "x", which does not exist
StoragePaths == Directories \cup {"x"}

NewKinds == {"missing", "notaudio", "failed", "valid"}

IndexedKinds == {"same", "older", "touched", "gone", "orphan"}

Kinds == NewKinds \cup IndexedKinds

\* the file is still there when the filter or the probe looks at it
Present(kind) == kind \notin {"missing", "gone"}

\* os.path.getmtime in half seconds: 10 is 5.0 s, 11 is 5.5 s, 12 is 6.0 s
getmtime(kind) ==
    CASE kind = "same" -> 11
      [] kind = "older" -> 8
      [] kind = "touched" -> 12
      [] OTHER -> 10

\* int(): truncation of a time in half seconds to whole seconds
int(halves) == halves \div 2

\* modification time the library has recorded for an indexed kind, in seconds
StoredModified(kind) == 5

RECURSIVE RunsLen(_)
RunsLen(runs) ==
    IF runs = <<>> THEN 0 ELSE Head(runs)[1] + RunsLen(Tail(runs))

RECURSIVE RunsKind(_, _)
RunsKind(runs, i) ==
    IF i <= Head(runs)[1] THEN Head(runs)[2]
    ELSE RunsKind(Tail(runs), i - Head(runs)[1])

DirSize(d) == RunsLen(disk.tree[d])

KindOf(file) == RunsKind(disk.tree[file[1]], file[2])

FilesOf(d) == {<<d, i>> : i \in 1..DirSize(d)}

DiskFiles == UNION {FilesOf(d) : d \in Directories}

\* os.path.exists of a configured path
exists(path) == path \in Directories

\* os.path.isfile of a walked file
isfile(file) == Present(KindOf(file))

----------------------------------------------------------------------------
(* Paths as text: a path is a sequence of characters *)

\* directory "a" is /m; directory "b" is /s b%, or /m/s b% when it lies inside "a"
DirPath(d) ==
    IF d = "a" THEN <<"/", "m">>
    ELSE IF disk.nested THEN <<"/", "m", "/", "s", " ", "b", "%">>
    ELSE <<"/", "s", " ", "b", "%">>

\* os.path.join(directory, file): the file's name is its index
join(file) == DirPath(file[1]) \o <<"/", ToString(file[2])>>

QuoteChar(c) ==
    CASE c = " " -> <<"%", "2", "0">>
      [] c = "%" -> <<"%", "2", "5">>
      [] c = "#" -> <<"%", "2", "3">>
      [] c = "?" -> <<"%", "3", "F">>
      [] OTHER -> <<c>>

RECURSIVE quote(_)
quote(s) == IF s = <<>> THEN <<>> ELSE QuoteChar(Head(s)) \o quote(Tail(s))

\* the text of AudioFileCouldNotBeDiscovered: the file's URI
as_uri(path) == <<"f", "i", "l", "e", ":", "/", "/">> \o quote(path)

RECURSIVE DropThrough(_, _)
DropThrough(s, c) ==
    IF s = <<>> THEN <<>>
    ELSE IF Head(s) = c THEN Tail(s)
    ELSE DropThrough(Tail(s), c)

RECURSIVE DropUntil(_, _)
DropUntil(s, stops) ==
    IF s = <<>> \/ Head(s) \in stops THEN s ELSE DropUntil(Tail(s), stops)

RECURSIVE TakeUntil(_, _)
TakeUntil(s, stops) ==
    IF s = <<>> \/ Head(s) \in stops THEN <<>>
    ELSE <<Head(s)>> \o TakeUntil(Tail(s), stops)

\* urlparse(text).path: after "scheme:" and "//netloc", up to "?" or "#"
urlparse_path(text) ==
    LET rest == IF ":" \in Range(text) THEN DropThrough(text, ":") ELSE text
        noloc == IF Len(rest) >= 2 /\ rest[1] = "/" /\ rest[2] = "/"
                 THEN DropUntil(SubSeq(rest, 3, Len(rest)), {"/", "?", "#"})
                 ELSE rest
    IN  TakeUntil(noloc, {"?", "#"})

Escapes == {<<"2", "0">>, <<"2", "5">>, <<"2", "3">>, <<"3", "F">>}

UnquoteChar(hex) ==
    CASE hex = <<"2", "0">> -> " "
      [] hex = <<"2", "5">> -> "%"
      [] hex = <<"2", "3">> -> "#"
      [] hex = <<"3", "F">> -> "?"

RECURSIVE unquote(_)
unquote(s) ==
    IF s = <<>> THEN <<>>
    ELSE IF Head(s) = "%" /\ Len(s) >= 3 /\ <<s[2], s[3]>> \in Escapes
         THEN <<UnquoteChar(<<s[2], s[3]>>)>> \o unquote(SubSeq(s, 4, Len(s)))
         ELSE <<Head(s)>> \o unquote(Tail(s))

----------------------------------------------------------------------------
(* MediaDetector and Importer.import_file *)

None == [tag |-> "None"]

\* MediaDetector.get_media_data: a MediaFile, or the name of the exception raised
get_media_data(file) ==
    CASE KindOf(file) = "notaudio" -> [raise |-> "NotAnAudioFile"]
      [] KindOf(file) = "failed" ->
            [raise |-> "AudioFileCouldNotBeDiscovered", text |-> as_uri(join(file))]
      [] OTHER -> [raise |-> "none",
                   media |-> [tag |-> "MediaFile", path |-> file,
                              modified |-> int(getmtime(KindOf(file)))]]

\* line 129: unquote(urlparse(text).path), each call applied to the value of
\* the one before
DecodedPath(text) ==
    CHOOSE decoded \in {unquote(path) : path \in {urlparse_path(text)}} : TRUE

import_file(file) ==
    IF ~isfile(file) THEN None
    ELSE CASE get_media_data(file).raise = "NotAnAudioFile" -> None
           [] get_media_data(file).raise = "AudioFileCouldNotBeDiscovered" ->
                 [tag |-> "str",
                  text |-> CHOOSE path \in {DecodedPath(e) :
                                               e \in {get_media_data(file).text}} : TRUE]
           [] OTHER -> get_media_data(file).media

----------------------------------------------------------------------------
(* Settings, FilesystemMonitor and Importer._get_configured_storage_paths *)

RECURSIVE Select(_, _)
Select(locations, external) ==
    IF locations = <<>> THEN <<>>
    ELSE IF Head(locations).external = external
         THEN <<Head(locations)>> \o Select(Tail(locations), external)
         ELSE Select(Tail(locations), external)

\* Settings.external_storage_locations
external_storage_locations == Select(storage_locations, TRUE)

\* FilesystemMonitor.is_storage_online: TRUE, FALSE or raises StorageNotFound
is_storage_online(storage) ==
    CASE storage.status = "online" -> [raise |-> "none", value |-> TRUE]
      [] storage.status = "offline" -> [raise |-> "none", value |-> FALSE]
      [] OTHER -> [raise |-> "StorageNotFound"]

\* lines 81-86: the paths the loop over the external locations appends
RECURSIVE OnlineExternal(_)
OnlineExternal(locations) ==
    IF locations = <<>> THEN <<>>
    ELSE LET online == is_storage_online(Head(locations))
             keep == IF online.raise = "StorageNotFound" THEN TRUE ELSE online.value
         IN  (IF keep THEN <<Head(locations).path>> ELSE <<>>)
             \o OnlineExternal(Tail(locations))

RECURSIVE Existing(_)
Existing(paths) ==
    IF paths = <<>> THEN <<>>
    ELSE (IF exists(Head(paths)) THEN <<Head(paths)>> ELSE <<>>)
         \o Existing(Tail(paths))

\* mutant: line 86 passes instead of appending the path
_get_configured_storage_paths_SkipsUnknown ==
    LET internal == Select(storage_locations, FALSE)
        online == Select(Select(storage_locations, TRUE), TRUE)
        known == [i \in 1..Len(online) |->
                    IF online[i].status = "online" THEN online[i].path ELSE "x"]
    IN  Existing([i \in 1..Len(internal) |-> internal[i].path] \o known)

_get_configured_storage_paths ==
    LET internal == Select(storage_locations, FALSE)
        paths == [i \in 1..Len(internal) |-> internal[i].path]
                 \o OnlineExternal(external_storage_locations)
    IN  Existing(paths)

----------------------------------------------------------------------------
(* Importer._walk_paths_to_scan: a lazy walk, read by position *)

\* os.walk(path): the directory, then the directories inside it
os_walk(path) == IF path = "a" /\ disk.nested THEN <<"a", "b">> ELSE <<path>>

RECURSIVE WalkedDirs(_)
WalkedDirs(paths) ==
    IF paths = <<>> THEN <<>> ELSE os_walk(Head(paths)) \o WalkedDirs(Tail(paths))

RECURSIVE WalkLen(_)
WalkLen(dirs) == IF dirs = <<>> THEN 0 ELSE DirSize(Head(dirs)) + WalkLen(Tail(dirs))

RECURSIVE WalkAt(_, _)
WalkAt(dirs, n) ==
    IF n <= DirSize(Head(dirs)) THEN <<Head(dirs), n>>
    ELSE WalkAt(Tail(dirs), n - DirSize(Head(dirs)))

\* the n-th file the walk of paths_to_scan yields
_walk_paths_to_scan(n) == WalkAt(WalkedDirs(paths_to_scan), n)

WalkSize == WalkLen(WalkedDirs(paths_to_scan))

----------------------------------------------------------------------------
(* Importer._filter_unchanged_files: one step of the generator's loop *)

\* mutant: line 109 compares with >= instead of >
FilterStep_NotStrict(file, imported) ==
    IF file \in imported
    THEN IF ~\E chapter \in chapters : chapter.file = file
         THEN "RuntimeError"
         ELSE IF ~Present(KindOf(file))
         THEN "FileNotFoundError"
         ELSE IF int(getmtime(KindOf(file)))
                    >= (CHOOSE chapter \in chapters : chapter.file = file).modified
         THEN "yield"
         ELSE "continue"
    ELSE "yield"

FilterStep(file, imported) ==
    IF file \in imported
    THEN IF ~\E chapter \in chapters : chapter.file = file
         THEN "RuntimeError"           \* next() finds no chapter: StopIteration in a generator
         ELSE IF ~Present(KindOf(file))
         THEN "FileNotFoundError"      \* os.path.getmtime of a file that is gone
         ELSE IF int(getmtime(KindOf(file)))
                    > (CHOOSE chapter \in chapters : chapter.file = file).modified
         THEN "yield"
         ELSE "continue"
    ELSE "yield"

----------------------------------------------------------------------------
(* Library.insert_many *)

MediaFilesOf(media_files) == {m \in media_files : m.tag = "MediaFile"}

insert_many_files(media_files) ==
    files \cup {m.path : m \in MediaFilesOf(media_files)}

insert_many_chapters(media_files) ==
    {c \in chapters : c.file \notin {m.path : m \in MediaFilesOf(media_files)}}
    \cup {[file |-> m.path, modified |-> m.modified] : m \in MediaFilesOf(media_files)}

----------------------------------------------------------------------------
(* EventSender: Python values carry their type *)

Str(text) == [tag |-> "str", val |-> text]

Tuple(items) == [tag |-> "tuple", val |-> items]

SetOf(elements) == [tag |-> "set", val |-> elements]

\* a member of the enumeration ScanStatus
Status(name) == [tag |-> "ScanStatus", val |-> name]

\* Python's "not value"
not(value) ==
    CASE value.tag = "None" -> TRUE
      [] value.tag = "str" -> value.val = ""
      [] value.tag = "tuple" -> value.val = <<>>
      [] value.tag = "set" -> value.val = {}
      [] OTHER -> FALSE

\* a listener call: function(event, message); owner and self are history, the
\* instance add_listener was called on and the instance that emits
Call(listener, self, event, message) ==
    [function |-> listener.function, owner |-> listener.owner, self |-> self,
     event |-> event, message |-> message]

\* mutant: lines 8-10 are missing
emit_event_NoUnpack(self, event, message) ==
    [i \in 1..Len(listeners) |-> Call(listeners[i], self, event, message)]

\* lines 7-13: the listener calls of one emit_event run, in order
emit_event(self, event, message) ==
    IF event.tag = "tuple" /\ not(message)
    THEN [i \in 1..Len(listeners) |->
             Call(listeners[i], self, event.val[1], event.val[2])]
    ELSE [i \in 1..Len(listeners) |-> Call(listeners[i], self, event, message)]

\* mutant: the later call is scheduled before the pending ones
emit_event_main_thread_Prepend(sources, self, event, message) ==
    <<[self |-> self, data |-> Tuple(<<event, message>>)]>> \o sources

\* lines 15-16: the idle sources of the main loop once self.emit_event is
\* added to them with the one argument (event, message)
emit_event_main_thread(sources, self, event, message) ==
    Append(sources, [self |-> self, data |-> Tuple(<<event, message>>)])

\* lines 18-19: the list of the class once function is appended
add_listener(self, function) ==
    Append(listeners, [function |-> function, owner |-> self])

----------------------------------------------------------------------------
(* Initial states *)

Locations ==
    {l \in [path : StoragePaths, external : BOOLEAN,
            status : {"online", "offline", "notfound"}] :
        ~l.external => l.status = "online"}

InternalA == [path |-> "a", external |-> FALSE, status |-> "online"]

SeqsUpTo(S, n) == UNION {[1..k -> S] : k \in 0..n}

\* run lengths of the large directories
BigShapes == {<<100>>, <<100, 1>>, <<100, 100, 50>>, <<1, 99, 100, 1>>, <<1, 1, 1, 1>>}

BigKinds(shape) == IF Len(shape) = 4 /\ shape[2] = 1 THEN NewKinds
                   ELSE {"notaudio", "failed", "valid"}

BigRuns ==
    UNION {{[i \in 1..Len(shape) |-> <<shape[i], kinds[i]>>] :
                kinds \in [1..Len(shape) -> BigKinds(shape)]} : shape \in BigShapes}

SmallRuns ==
    {[i \in 1..Len(kinds) |-> <<1, kinds[i]>>] : kinds \in SeqsUpTo(Kinds, MaxFiles)}

\* one internal location "a" with a large or a small directory
InitFiles ==
    /\ storage_locations = <<InternalA>>
    /\ \E runs \in BigRuns \cup SmallRuns :
          disk = [tree |-> [d \in Directories |-> IF d = "a" THEN runs ELSE <<>>],
                  nested |-> FALSE]

\* any locations over two small directories
InitLocations ==
    /\ storage_locations \in SeqsUpTo(Locations, MaxLocations)
    /\ \E nested \in BOOLEAN :
          disk = [tree |-> [d \in Directories |->
                              IF d = "a" THEN <<<<1, "valid">>, <<1, "failed">>>>
                              ELSE <<<<1, "valid">>>>],
                  nested |-> nested]

\* the internal location "a" configured twice, with a directory of one full
\* slice: every file is walked twice, in two batches
InitTwice ==
    /\ storage_locations = <<InternalA, InternalA>>
    /\ \E kind \in {"valid", "failed", "same", "touched"} :
          disk = [tree |-> [d \in Directories |->
                              IF d = "a" THEN <<<<BatchSize, kind>>>> ELSE <<>>],
                  nested |-> FALSE]

\* no scan() has been called
NotScanned ==
    /\ pc = "idle"
    /\ exc = "none"
    /\ paths_to_scan = <<>>
    /\ cursor = 0
    /\ gen_started = FALSE
    /\ imported_files = {}
    /\ batch = <<>>
    /\ results = <<>>
    /\ started = 0
    /\ returned = 0
    /\ undetected_files = {}
    /\ events = <<>>
    /\ slices = <<>>
    /\ inserted = <<>>
    /\ probes = <<>>
    /\ filtered = <<>>
    /\ scans = 0

Init ==
    /\ InitFiles \/ InitLocations \/ InitTwice
    /\ files = {f \in DiskFiles : KindOf(f) \in IndexedKinds}
    /\ chapters = {[file |-> f, modified |-> StoredModified(KindOf(f))] :
                      f \in {g \in DiskFiles : KindOf(g) \in IndexedKinds \ {"orphan"}}}
    /\ NotScanned
    /\ listeners = <<[function |-> "window", owner |-> "importer"],
                     [function |-> "view", owner |-> "importer"]>>
    /\ idle = <<>>
    /\ calls = <<>>

\* two EventSender instances and no listener yet; nothing is configured
InitSenders ==
    /\ storage_locations = <<>>
    /\ disk = [tree |-> [d \in Directories |-> <<>>], nested |-> FALSE]
    /\ files = {}
    /\ chapters = {}
    /\ NotScanned
    /\ listeners = <<>>
    /\ idle = <<>>
    /\ calls = <<>>

----------------------------------------------------------------------------
(* Importer.scan *)

Event(event, message) == [event |-> event, message |-> message]

\* lines 33-39 and 50-52: scan() up to the batch loop
scan ==
    /\ events' = <<Event("scan", "STARTED")>>
    /\ idle' = emit_event_main_thread(idle, "importer", Str("scan"), Status("STARTED"))
    /\ paths_to_scan' = _get_configured_storage_paths
    /\ cursor' = 0
    /\ gen_started' = FALSE
    /\ imported_files' = {}
    /\ undetected_files' = {}
    /\ batch' = <<>>
    /\ results' = <<>>
    /\ started' = 0
    /\ returned' = 0
    /\ slices' = <<>>
    /\ inserted' = <<>>
    /\ probes' = <<>>
    /\ filtered' = <<>>
    /\ exc' = "none"
    /\ scans' = scans + 1
    /\ pc' = "slice"
    /\ UNCHANGED <<storage_locations, disk, files, chapters, listeners, calls>>

\* the first scan() call
ScanStart == pc = "idle" /\ scan

\* scan() called again after it returned or raised
ScanAgain == pc \in {"done", "raised"} /\ scans < MaxScans /\ scan

\* line 100 runs when the generator is advanced for the first time
Imported == IF gen_started THEN imported_files ELSE files

\* line 54: islice asks the filter generator for the next file, and the
\* generator yields the file the walk gives it (lines 110 and 114)
PullYield ==
    /\ pc = "slice"
    /\ Len(batch) < BatchSize
    /\ cursor < WalkSize
    /\ FilterStep(_walk_paths_to_scan(cursor + 1), Imported) = "yield"
    /\ batch' = Append(batch, _walk_paths_to_scan(cursor + 1))
    /\ filtered' = Append(filtered, _walk_paths_to_scan(cursor + 1))
    /\ cursor' = cursor + 1
    /\ imported_files' = Imported
    /\ gen_started' = TRUE
    /\ UNCHANGED <<storage_locations, disk, files, chapters, pc, exc, paths_to_scan,
                   results, started, returned, undetected_files, events, slices,
                   inserted, probes, scans>>
    /\ UNCHANGED sender_vars

\* lines 103-112: the generator passes over an imported file that has not changed
PullContinue ==
    /\ pc = "slice"
    /\ Len(batch) < BatchSize
    /\ cursor < WalkSize
    /\ FilterStep(_walk_paths_to_scan(cursor + 1), Imported) = "continue"
    /\ cursor' = cursor + 1
    /\ imported_files' = Imported
    /\ gen_started' = TRUE
    /\ UNCHANGED <<storage_locations, disk, files, chapters, pc, exc, paths_to_scan,
                   batch, results, started, returned, undetected_files, events,
                   slices, inserted, probes, filtered, scans>>
    /\ UNCHANGED sender_vars

\* lines 104 and 109: the generator raises while the slice is drawn, and the
\* exception leaves pool.map, _execute_import and scan
PullRaises ==
    /\ pc = "slice"
    /\ Len(batch) < BatchSize
    /\ cursor < WalkSize
    /\ FilterStep(_walk_paths_to_scan(cursor + 1), Imported) \notin {"yield", "continue"}
    /\ exc' = FilterStep(_walk_paths_to_scan(cursor + 1), Imported)
    /\ cursor' = cursor + 1
    /\ imported_files' = Imported
    /\ gen_started' = TRUE
    /\ pc' = "raised"
    /\ UNCHANGED <<storage_locations, disk, files, chapters, paths_to_scan, batch,
                   results, started, returned, undetected_files, events, slices,
                   inserted, probes, filtered, scans>>
    /\ UNCHANGED sender_vars

\* line 54: the slice is complete, with 100 files or at the end of the walk,
\* and pool.map hands its files to the workers
Dispatch ==
    /\ pc = "slice"
    /\ Len(batch) = BatchSize \/ cursor = WalkSize
    /\ slices' = Append(slices, Len(batch))
    /\ imported_files' = Imported
    /\ gen_started' = TRUE
    /\ results' = <<>>
    /\ started' = 0
    /\ returned' = 0
    /\ pc' = "map"
    /\ UNCHANGED <<storage_locations, disk, files, chapters, exc, paths_to_scan,
                   cursor, batch, undetected_files, events, inserted, probes,
                   filtered, scans>>
    /\ UNCHANGED sender_vars

\* a worker of the pool takes the next file of the slice and calls import_file
ProbeStart ==
    /\ pc = "map"
    /\ started < Len(batch)
    /\ started - returned < NumWorkers
    /\ started' = started + 1
    /\ probes' = Append(probes, batch[started + 1])
    /\ results' = Append(results, import_file(batch[started + 1]))
    /\ UNCHANGED <<storage_locations, disk, files, chapters, pc, exc, paths_to_scan,
                   cursor, gen_started, imported_files, batch, returned,
                   undetected_files, events, slices, inserted, filtered, scans>>
    /\ UNCHANGED sender_vars

\* an import_file call returns
ProbeReturn ==
    /\ pc = "map"
    /\ returned < started
    /\ returned' = returned + 1
    /\ UNCHANGED <<storage_locations, disk, files, chapters, pc, exc, paths_to_scan,
                   cursor, gen_started, imported_files, batch, results, started,
                   undetected_files, events, slices, inserted, probes, filtered, scans>>
    /\ UNCHANGED sender_vars

\* line 55
Undetected(media_files) == {r.text : r \in {x \in Range(media_files) : x.tag = "str"}}

\* line 56
MediaFiles(media_files) == {r \in Range(media_files) : r.tag # "str"}

\* mutant: the results are collected when every probe is dispatched, without
\* waiting for the probes to return
CollectInsert_NoWait ==
    /\ pc = "map"
    /\ started = Len(batch)
    /\ MediaFiles(results) # {}
    /\ undetected_files' = undetected_files \cup Undetected(results)
    /\ files' = insert_many_files(MediaFiles(results))
    /\ chapters' = insert_many_chapters(MediaFiles(results))
    /\ inserted' = Append(inserted, MediaFiles(results))
    /\ batch' = <<>>
    /\ pc' = "slice"
    /\ UNCHANGED <<storage_locations, disk, exc, paths_to_scan, cursor, gen_started,
                   imported_files, results, started, returned, events, slices,
                   probes, filtered, scans>>
    /\ UNCHANGED sender_vars

\* lines 55-59: pool.map has returned and the batch has media files
CollectInsert ==
    /\ pc = "map"
    /\ returned = Len(batch)
    /\ MediaFiles(results) # {}
    /\ undetected_files' = undetected_files \cup Undetected(results)
    /\ files' = insert_many_files(MediaFiles(results))
    /\ chapters' = insert_many_chapters(MediaFiles(results))
    /\ inserted' = Append(inserted, MediaFiles(results))
    /\ batch' = <<>>
    /\ pc' = "slice"
    /\ UNCHANGED <<storage_locations, disk, exc, paths_to_scan, cursor, gen_started,
                   imported_files, results, started, returned, events, slices,
                   probes, filtered, scans>>
    /\ UNCHANGED sender_vars

\* mutant: insert_many is called before the length of media_files is tested
CollectBreak_InsertsFirst ==
    /\ pc = "map"
    /\ returned = Len(batch)
    /\ MediaFiles(results) = {}
    /\ undetected_files' = undetected_files \cup Undetected(results)
    /\ inserted' = Append(inserted, MediaFiles(results))
    /\ pc' = "return"
    /\ UNCHANGED <<storage_locations, disk, files, chapters, exc, paths_to_scan,
                   cursor, gen_started, imported_files, batch, results, started,
                   returned, events, slices, probes, filtered, scans>>
    /\ UNCHANGED sender_vars

\* lines 55-56 and 60-64: pool.map has returned and the batch has no media files
CollectBreak ==
    /\ pc = "map"
    /\ returned = Len(batch)
    /\ MediaFiles(results) = {}
    /\ undetected_files' = undetected_files \cup Undetected(results)
    /\ pc' = "return"
    /\ UNCHANGED <<storage_locations, disk, files, chapters, exc, paths_to_scan,
                   cursor, gen_started, imported_files, batch, results, started,
                   returned, events, slices, inserted, probes, filtered, scans>>
    /\ UNCHANGED sender_vars

\* mutant: a scan with undetected files reports FINISHED_WITH_ERRORS
ScanFinish_FinishedWithErrors ==
    /\ pc = "return"
    /\ events' = events
                 \o (IF Cardinality(undetected_files) > 0
                     THEN <<Event("scan", "FINISHED_WITH_ERRORS"),
                            Event("import-failed", undetected_files)>>
                     ELSE <<Event("scan", "SUCCESS")>>)
    /\ idle' = LET status == IF Cardinality(undetected_files) > 0
                             THEN "FINISHED_WITH_ERRORS" ELSE "SUCCESS"
                   first == emit_event_main_thread(idle, "importer", Str("scan"),
                                                   Status(status))
               IN  IF Cardinality(undetected_files) > 0
                   THEN emit_event_main_thread(first, "importer",
                                               Str("import-failed"),
                                               SetOf(undetected_files))
                   ELSE first
    /\ pc' = "done"
    /\ UNCHANGED <<storage_locations, disk, files, chapters, exc, paths_to_scan,
                   cursor, gen_started, imported_files, batch, results, started,
                   returned, undetected_files, slices, inserted, probes, filtered,
                   scans>>
    /\ UNCHANGED <<listeners, calls>>

\* lines 41-47
ScanFinish ==
    /\ pc = "return"
    /\ events' = events \o <<Event("scan", "SUCCESS")>>
                 \o (IF Cardinality(undetected_files) > 0
                     THEN <<Event("import-failed", undetected_files)>> ELSE <<>>)
    /\ idle' = LET success == emit_event_main_thread(idle, "importer", Str("scan"),
                                                     Status("SUCCESS"))
               IN  IF Cardinality(undetected_files) > 0
                   THEN emit_event_main_thread(success, "importer",
                                               Str("import-failed"),
                                               SetOf(undetected_files))
                   ELSE success
    /\ pc' = "done"
    /\ UNCHANGED <<storage_locations, disk, files, chapters, exc, paths_to_scan,
                   cursor, gen_started, imported_files, batch, results, started,
                   returned, undetected_files, slices, inserted, probes, filtered,
                   scans>>
    /\ UNCHANGED <<listeners, calls>>

----------------------------------------------------------------------------
(* EventSender, called by any component, and the main loop *)

Senders == {"A", "B"}

Functions == {"f"}

\* event names, one of them a tuple
EventValues == {Str("scan"), Tuple(<<Str("a"), Str("b")>>)}

\* messages, two of them false in Python
MessageValues == {None, SetOf({}), Str("x")}

\* lines 18-19
AddListener ==
    /\ Len(listeners) < MaxListeners
    /\ \E self \in Senders, function \in Functions :
          listeners' = add_listener(self, function)
    /\ UNCHANGED <<idle, calls>>
    /\ UNCHANGED importer_vars

\* lines 7-13, called directly
EmitEvent ==
    /\ Len(idle) + Len(calls) < MaxCalls
    /\ \E self \in Senders, event \in EventValues, message \in MessageValues :
          calls' = calls \o emit_event(self, event, message)
    /\ UNCHANGED <<listeners, idle>>
    /\ UNCHANGED importer_vars

\* lines 15-16
EmitEventMainThread ==
    /\ Len(idle) + Len(calls) < MaxCalls
    /\ \E self \in Senders, event \in EventValues, message \in MessageValues :
          idle' = emit_event_main_thread(idle, self, event, message)
    /\ UNCHANGED <<listeners, calls>>
    /\ UNCHANGED importer_vars

\* line 16: the main loop runs the oldest idle source, self.emit_event with
\* the one argument given; emit_event returns None, so the source is removed
Deliver ==
    /\ idle # <<>>
    /\ calls' = calls \o emit_event(Head(idle).self, Head(idle).data, None)
    /\ idle' = Tail(idle)
    /\ UNCHANGED listeners
    /\ UNCHANGED importer_vars

Next ==
    \/ ScanStart
    \/ PullYield
    \/ PullContinue
    \/ PullRaises
    \/ Dispatch
    \/ ProbeStart
    \/ ProbeReturn
    \/ CollectInsert
    \/ CollectBreak
    \/ ScanFinish

Spec == Init /\ [][Next]_vars

NextAgain == Next \/ ScanAgain

\* scan() may be called again when it is over
SpecAgain == Init /\ [][NextAgain]_vars

\* the scan thread keeps running and every dispatched probe returns
FairSpec == Spec /\ WF_vars(Next)

NextMainLoop == Next \/ Deliver

\* the scan thread and the main loop that runs the scheduled emit_event calls
SpecMainLoop == Init /\ [][NextMainLoop]_vars

NextSenders == AddListener \/ EmitEvent \/ EmitEventMainThread \/ Deliver

\* components use the EventSender interface on two instances
SpecSenders == InitSenders /\ [][NextSenders]_vars

----------------------------------------------------------------------------
(* What is on disk and in the library's index when the scan starts *)

WalkedFile(k) == _walk_paths_to_scan(k)

WalkedFiles == {WalkedFile(k) : k \in 1..WalkSize}

NoDuplicates == Cardinality(WalkedFiles) = WalkSize

InIndex(file) == KindOf(file) \in IndexedKinds

ChangedOnDisk(file) ==
    /\ Present(KindOf(file))
    /\ getmtime(KindOf(file)) \div 2 > StoredModified(KindOf(file))

\* the file is new, or imported and changed since
Candidate(file) == ~InIndex(file) \/ ChangedOnDisk(file)

\* no walked file makes the filter generator raise
FaultFree == \A k \in 1..WalkSize : KindOf(WalkedFile(k)) \notin {"gone", "orphan"}

CandidateCount == Cardinality({k \in 1..WalkSize : Candidate(WalkedFile(k))})

ProbeCount(file) == Cardinality({i \in 1..Len(probes) : probes[i] = file})

PersistedFiles ==
    UNION {{m.path : m \in MediaFilesOf(inserted[i])} : i \in 1..Len(inserted)}

Emitted(event, message) ==
    {i \in 1..Len(events) : events[i].event = event /\ events[i].message = message}

EmittedEvent(event) == {i \in 1..Len(events) : events[i].event = event}

----------------------------------------------------------------------------
(* C1 *)

\* C1: when scan() has returned over a walk without duplicate paths, every
\* candidate the filter produces has been probed exactly once and is in exactly
\* one outcome class: persisted by insert_many, in the undetected set, or
\* silently discarded.
C1_NoLossNoDuplication ==
    (pc = "done" /\ FaultFree /\ NoDuplicates) =>
        \A file \in {f \in WalkedFiles : Candidate(f)} :
            /\ ProbeCount(file) = 1
            /\ Cardinality({class \in {"persisted", "undetected", "discarded"} :
                    \/ class = "persisted" /\ file \in PersistedFiles
                    \/ class = "undetected" /\ join(file) \in undetected_files
                    \/ class = "discarded"
                          /\ KindOf(file) \in {"missing", "notaudio"}}) = 1

----------------------------------------------------------------------------
(* C2 *)

\* C2: a second scan() over an unchanged file system passes no MediaFile to
\* insert_many.
C2_Idempotence ==
    scans >= 2 => \A i \in 1..Len(inserted) : MediaFilesOf(inserted[i]) = {}

----------------------------------------------------------------------------
(* C3 *)

RECURSIVE SliceStart(_)
SliceStart(i) == IF i = 1 THEN 0 ELSE SliceStart(i - 1) + slices[i - 1]

\* the files of the i-th slice of this scan
SliceFiles(i) == {filtered[j] : j \in (SliceStart(i) + 1)..(SliceStart(i) + slices[i])}

ValidAudio(file) == Present(KindOf(file)) /\ KindOf(file) \notin {"notaudio", "failed"}

\* C3: every collection passed to insert_many holds MediaFiles only, those of
\* the valid audio files of its batch; results that are nothing reach neither
\* insert_many nor the undetected set; the undetected set holds exactly the
\* paths of the probed files whose discovery failed.
C3_Partition ==
    /\ \A i \in 1..Len(inserted) :
          /\ \A m \in inserted[i] : m.tag = "MediaFile"
          /\ {m.path : m \in MediaFilesOf(inserted[i])}
                = {f \in SliceFiles(i) : ValidAudio(f)}
    /\ pc \in {"return", "done"} =>
          undetected_files = {join(f) : f \in {g \in Range(probes) : KindOf(g) = "failed"}}

----------------------------------------------------------------------------
(* C5 *)

\* C5: a file that disappears between the walk and the filter or the probe is
\* skipped silently: no FileNotFoundError leaves scan().
C5_VanishedFileAbsorbed == exc # "FileNotFoundError"

----------------------------------------------------------------------------
(* C7 *)

ExpectedSlices(n) ==
    [i \in 1..(n \div BatchSize) |-> BatchSize]
    \o (IF n % BatchSize # 0 THEN <<n % BatchSize>> ELSE <<>>)
    \o <<0>>

\* C7: for N candidates the slices taken in one scan() are floor(N/100) slices
\* of 100, one of N mod 100 if that is not zero, then one empty slice, whatever
\* the probes return; no slice exceeds 100.
C7_BatchBoundaries ==
    /\ \A i \in 1..Len(slices) : slices[i] <= BatchSize
    /\ (pc = "done" /\ FaultFree) => slices = ExpectedSlices(CandidateCount)

----------------------------------------------------------------------------
(* C4 *)

ScanSucceeded == pc = "done" /\ Emitted("scan", "SUCCESS") # {}

\* C4: with every dispatched probe returning, a started scan() eventually
\* leaves the batch loop and emits (scan, Success): it neither loops forever
\* nor ends without Success.
C4_Termination == (pc = "slice") ~> ScanSucceeded

\* the same over the walks on which the filter generator does not raise
TerminationWhenFaultFree ==
    /\ [](FaultFree => pc # "raised")
    /\ (pc = "slice" /\ FaultFree) ~> ScanSucceeded

----------------------------------------------------------------------------
(* C6 *)

\* the order of the events of one scan(), whether it returns or not
EventOrder ==
    /\ (slices # <<>> \/ probes # <<>> \/ pc # "idle") =>
          (events # <<>> /\ events[1] = Event("scan", "STARTED"))
    /\ Cardinality(Emitted("scan", "STARTED")) <= 1
    /\ Cardinality(Emitted("scan", "SUCCESS")) <= 1
    /\ Emitted("scan", "SUCCESS") # {} => pc = "done"
    /\ Cardinality(EmittedEvent("import-failed")) <= 1
    /\ \A i \in EmittedEvent("import-failed") :
          /\ \E j \in Emitted("scan", "SUCCESS") : j < i
          /\ events[i].message = undetected_files
    /\ pc = "done" =>
          /\ Cardinality(Emitted("scan", "SUCCESS")) = 1
          /\ EmittedEvent("import-failed") # {} <=> undetected_files # {}

\* C6: (scan, Started) is the first event and is emitted before any slice is
\* taken or probe dispatched; (import-failed, set) is emitted at most once,
\* only after Success, if and only if the undetected set is not empty, with
\* that set; and a scan() that is over, by returning or by raising, has
\* emitted (scan, Success) exactly once.
C6_EventOrdering ==
    /\ EventOrder
    /\ pc \in {"done", "raised"} => Cardinality(Emitted("scan", "SUCCESS")) = 1

----------------------------------------------------------------------------
(* C8 *)

\* the file is on disk with a modification time that, in whole seconds, is
\* greater than the one its chapter record stores
ChangedSinceStored(file) ==
    /\ Present(KindOf(file))
    /\ \E chapter \in chapters :
          /\ chapter.file = file
          /\ getmtime(KindOf(file)) \div 2 > chapter.modified

\* C8: each time the filter is given a walked path it yields the path, once
\* and after the paths it yielded before, if the path is not in the index or
\* its modification time on disk, truncated to whole seconds, is greater than
\* the stored one, and yields nothing otherwise; the filter is given the
\* walked paths one by one in the order of the walk.
C8_ChangeDetection ==
    [][(pc = "slice" /\ cursor' # cursor) =>
         /\ cursor' = cursor + 1
         /\ filtered' = IF WalkedFile(cursor') \notin Imported
                           \/ ChangedSinceStored(WalkedFile(cursor'))
                        THEN Append(filtered, WalkedFile(cursor'))
                        ELSE filtered
    ]_vars

\* the filter has yielded a changed file and dropped an unchanged and an older one
C8_Witness ==
    /\ pc = "map"
    /\ \E f \in Range(filtered) : KindOf(f) = "touched"
    /\ \E k \in 1..cursor : KindOf(WalkedFile(k)) = "same"
    /\ \E k \in 1..cursor : KindOf(WalkedFile(k)) = "older"

----------------------------------------------------------------------------
(* C9 *)

Eligible(storage) ==
    \/ ~storage.external
    \/ storage.external /\ storage.status = "online"
    \/ storage.external /\ storage.status = "notfound"

\* C9: a configured path is a scan root if and only if it exists on disk and
\* one of its locations is not external, or is external and online, or is
\* external and unknown to the monitor; scan() does not raise for the others.
C9_PathResolution ==
    pc # "idle" =>
        \A path \in StoragePaths :
            path \in Range(paths_to_scan) <=>
                /\ path \in Directories
                /\ \E i \in 1..Len(storage_locations) :
                      /\ storage_locations[i].path = path
                      /\ Eligible(storage_locations[i])

\* a location unknown to the monitor is a root, an offline one is not
C9_Witness ==
    /\ pc # "idle"
    /\ \E i, j \in 1..Len(storage_locations) :
          /\ storage_locations[i].external
          /\ storage_locations[i].status = "notfound"
          /\ storage_locations[i].path \in Range(paths_to_scan)
          /\ storage_locations[j].external
          /\ storage_locations[j].status = "offline"
          /\ storage_locations[j].path \in Directories
          /\ storage_locations[j].path \notin Range(paths_to_scan)

----------------------------------------------------------------------------
(* C10 *)

\* C10: with no scan root, scan() dispatches no probe, calls insert_many zero
\* times, does not raise and returns having emitted (scan, Started) then
\* (scan, Success) and nothing else.
C10_EmptyInput ==
    (pc # "idle" /\ paths_to_scan = <<>>) =>
        /\ probes = <<>>
        /\ inserted = <<>>
        /\ pc # "raised"
        /\ events[1] = Event("scan", "STARTED")
        /\ pc = "done" =>
              events = <<Event("scan", "STARTED"), Event("scan", "SUCCESS")>>

\* a scan whose configured locations are all excluded has returned
C10_Witness ==
    /\ pc = "done"
    /\ paths_to_scan = <<>>
    /\ storage_locations # <<>>

----------------------------------------------------------------------------
(* C11 *)

\* C11: the batch loop is left only after an empty slice has been taken: when
\* scan() is past the loop, the last slice it took is empty, whatever the
\* results of the batches before were.
C11_StopCondition ==
    pc \in {"return", "done"} => (slices # <<>> /\ slices[Len(slices)] = 0)

----------------------------------------------------------------------------
(* C12 *)

\* the batch whose results are collected has produced a MediaFile
ProducedMediaFile == \E i \in 1..Len(results) : results[i].tag = "MediaFile"

\* C12: when the results of a batch are collected, insert_many is called if
\* and only if the batch produced at least one MediaFile, and then once; and
\* insert_many is called at no other moment, so before the next slice is taken.
C12_IncrementalPersistence ==
    [][/\ (pc = "map" /\ pc' # "map") =>
             /\ ProducedMediaFile <=> inserted' # inserted
             /\ inserted' # inserted => Len(inserted') = Len(inserted) + 1
       /\ (pc \in {"slice", "map", "return"} /\ inserted' # inserted) =>
             (pc = "map" /\ returned = Len(batch) /\ pc' = "slice")
    ]_vars

----------------------------------------------------------------------------
(* C13 *)

\* C13: in the first scan every decision of the filter is the one the index
\* of the scan's start gives: a walked path is yielded if and only if it was
\* not imported then or has changed since the modification time stored then,
\* whatever insert_many has stored for earlier batches of the scan.
C13_SnapshotIsolation ==
    [][(scans = 1 /\ pc = "slice" /\ cursor' # cursor) =>
         filtered' = IF Candidate(WalkedFile(cursor'))
                     THEN Append(filtered, WalkedFile(cursor'))
                     ELSE filtered
    ]_vars

----------------------------------------------------------------------------
(* C14 *)

\* probes a worker has taken and that have not returned
InFlight == started - returned

\* at most 100 probes are in flight, all of the batch pool.map is running,
\* and the insert_many calls are in batch order
BarrierState ==
    /\ InFlight > 0 => pc = "map"
    /\ InFlight >= 0 /\ InFlight <= BatchSize
    /\ pc = "map" => started <= Len(batch)
    /\ \A i \in 1..Len(inserted) :
          {m.path : m \in MediaFilesOf(inserted[i])} \subseteq SliceFiles(i)

\* a probe starts on a file of the current batch; a slice is taken and
\* insert_many is called only when every probe of the batch has returned
BarrierStep ==
    pc \in {"slice", "map", "return"} =>
        /\ probes' # probes =>
              /\ pc = "map" /\ pc' = "map" /\ batch' = batch
              /\ probes' = Append(probes, batch[started'])
        /\ slices' # slices => (InFlight = 0 /\ started' = 0 /\ returned' = 0)
        /\ inserted' # inserted => (InFlight = 0 /\ returned = Len(batch))
        /\ (pc = "map" /\ pc' # "map") => returned = Len(batch)

\* C14: probes are in flight only while pool.map runs, they are probes of the
\* current batch and at most 100; a slice is taken and insert_many is called
\* only when no probe is in flight and every probe of the batch before has
\* returned; the insert_many calls are in batch order.
C14_BatchBarrier == []BarrierState /\ [][BarrierStep]_vars

\* two probes of the second batch are in flight and the first batch is inserted
C14_Witness ==
    /\ pc = "map"
    /\ Len(slices) = 2
    /\ Len(inserted) = 1
    /\ InFlight = NumWorkers

----------------------------------------------------------------------------
(* C15 *)

\* C15: a path that is in the imported files and has no chapter record does
\* not make the filter fail: no RuntimeError leaves scan().
C15_InconsistentIndexTolerated == exc # "RuntimeError"

----------------------------------------------------------------------------
(* C16 *)

\* C16: within one scan no file path is given to import_file more than once,
\* whatever the configured storage locations are.
C16_SingleOutcome == \A file \in Range(probes) : ProbeCount(file) <= 1

----------------------------------------------------------------------------
(* C17 *)

\* the members of ScanStatus, lines 20-24
ScanStatus == {"STARTED", "SUCCESS", "ABORTED", "FINISHED_WITH_ERRORS"}

\* C17: every (scan, status) event that is emitted or scheduled carries
\* STARTED or SUCCESS, never ABORTED or FINISHED_WITH_ERRORS; and a scan that
\* returns with undetected files has emitted STARTED, SUCCESS and then
\* import-failed with those files.
C17_ScanStatusValues ==
    /\ \A i \in EmittedEvent("scan") :
          /\ events[i].message \in ScanStatus
          /\ events[i].message \in {"STARTED", "SUCCESS"}
    /\ \A i \in 1..Len(idle) :
          idle[i].data.val[2].tag = "ScanStatus" =>
              idle[i].data.val[2].val \in {"STARTED", "SUCCESS"}
    /\ (pc = "done" /\ undetected_files # {}) =>
          events = <<Event("scan", "STARTED"), Event("scan", "SUCCESS"),
                     Event("import-failed", undetected_files)>>

\* a scan has returned with undetected files
C17_Witness ==
    /\ pc = "done"
    /\ undetected_files # {}
    /\ Len(idle) = 3

----------------------------------------------------------------------------
(* C18 *)

\* C18: a listener is called only for events emitted on the instance it was
\* added to.
C18_ListenerIsolation ==
    \A i \in 1..Len(calls) : calls[i].owner = calls[i].self

----------------------------------------------------------------------------
(* C19 *)

\* the k-th event scan() has scheduled, as the listeners are to receive it
Scheduled(k) ==
    [event |-> Str(events[k].event),
     message |-> IF events[k].event = "scan" THEN Status(events[k].message)
                 ELSE SetOf(events[k].message)]

\* the calls of one listener function, in order
Seen(function) == SelectSeq(calls, LAMBDA call : call.function = function)

\* C19: what a listener has received of one scan() is, at every moment, the
\* first events scan() has scheduled, in the order it scheduled them: Started,
\* then Success, then import-failed.
C19_FifoDelivery ==
    \A i \in 1..Len(listeners) :
        LET seen == Seen(listeners[i].function) IN
        /\ Len(seen) <= Len(events)
        /\ \A k \in 1..Len(seen) :
              /\ seen[k].event = Scheduled(k).event
              /\ seen[k].message = Scheduled(k).message

\* both listeners have received Started during the batch loop, and later
\* Success and import-failed
C19_Witness ==
    /\ pc = "done"
    /\ idle = <<>>
    /\ Len(calls) = 6
    /\ calls[5].event = Str("import-failed")

----------------------------------------------------------------------------
(* C20 *)

\* the calls one emit_event run owes to the listeners for (event, message)
OwedCalls(self, event, message) ==
    [i \in 1..Len(listeners) |-> Call(listeners[i], self, event, message)]

\* emit_event_main_thread(e, m) adds one idle source and calls no listener;
\* the main loop runs a source once and its run calls every listener of the
\* list, in the order of the list, with (e, m); the list is only appended to
RoundTripStep ==
    /\ Len(idle') > Len(idle) =>
          /\ Len(idle') = Len(idle) + 1
          /\ SubSeq(idle', 1, Len(idle)) = idle
          /\ calls' = calls
    /\ Len(idle') < Len(idle) =>
          /\ idle' = Tail(idle)
          /\ calls' = calls \o OwedCalls(Head(idle).self, Head(idle).data.val[1],
                                          Head(idle).data.val[2])
    /\ Len(listeners') >= Len(listeners)
    /\ SubSeq(listeners', 1, Len(listeners)) = listeners

\* C20: one emit_event_main_thread(e, m) call leads to exactly one emit_event
\* run, which calls every registered listener once per registration, in
\* registration order, with exactly (e, m), also when m is None or an empty
\* set and when e is a tuple; the listener list is only ever appended to.
C20_MainThreadRoundTrip == [][RoundTripStep]_vars

\* a function registered twice has been called twice, through the main loop,
\* with a tuple as event and None as message
C20_Witness ==
    /\ idle = <<>>
    /\ Len(listeners) = 2
    /\ listeners[1] = listeners[2]
    /\ Len(calls) = 2
    /\ calls[1].event.tag = "tuple" /\ calls[1].message = None
    /\ calls[2].event.tag = "tuple" /\ calls[2].message = None

====
